---- MODULE Spec2Model ----
(***************************************************************************)
(* Model of the job-hunt-platform store (internal/db/db.go) and of the     *)
(* calls its handlers make on it.  The table "applications" is a set of    *)
(* rows; every Store method is a call executed by one of a few concurrent  *)
(* goroutines, statement by statement.  The storage engine is SQLite in    *)
(* WAL mode as opened by NewStore: one writer at a time, a deferred        *)
(* transaction reads from the snapshot taken by its first SELECT and       *)
(* cannot be upgraded to a writer once another connection has committed.   *)
(***************************************************************************)
EXTENDS Integers, Sequences, FiniteSets, TLC

\* ------------------------------------------------------------------ bounds
NumProcs == 2
MaxCalls == 2
MaxClock == 2

\* clock ticks per second: time.RFC3339 keeps whole seconds only
TicksPerSecond == 2

Procs == 1..NumProcs
Ids == {"a1b2c3d4", "0f0f0f0f"}
NoProc == 0

\* JSON null / Go nil bound as a statement argument, SQL NULL in a column
Nil == "<nil>"

\* ------------------------------------------------------------------ schema
Columns ==
  {"id", "company", "role", "url", "salary_min", "salary_max", "location",
   "status", "notes", "applied_at", "created_at", "updated_at"}

TextCols == {"company", "role", "url", "location", "status", "notes", "applied_at"}

NotNullTextCols == {"company", "role", "status"}

\* an allowed map that also lets the timestamp through
allowed_WithUpdatedAt ==
  {"company", "role", "url", "salary_min", "salary_max", "location",
   "status", "notes", "applied_at", "updated_at"}

\* an allowed map that lacks the entry of company
allowed_NoCompany ==
  {"role", "url", "salary_min", "salary_max", "location",
   "status", "notes", "applied_at"}

\* the allowed map of Store.Update: JSON key -> column of the same name
allowed ==
  {"company", "role", "url", "salary_min", "salary_max", "location",
   "status", "notes", "applied_at"}

ValidStatuses ==
  {"wishlist", "applied", "phone_screen", "interview", "offer", "accepted",
   "rejected", "withdrawn", "ghosted"}

\* ------------------------------------------------------------------ inputs
\* model.CreateRequest values; a *int is <<>> (nil) or <<n>>
CreateInputs ==
  << [Company |-> "TestCo", Role |-> "Engineer", URL |-> "", SalaryMin |-> <<>>,
      SalaryMax |-> <<>>, Location |-> "", Status |-> "", Notes |-> "",
      AppliedAt |-> ""],
     [Company |-> "Acme", Role |-> "Dev", URL |-> "https://acme.test",
      SalaryMin |-> <<100000>>, SalaryMax |-> <<150000>>, Location |-> "Remote",
      Status |-> "interview", Notes |-> "first call", AppliedAt |-> "2026-01-15"],
     [Company |-> "Initech", Role |-> "QA", URL |-> "", SalaryMin |-> <<>>,
      SalaryMax |-> <<>>, Location |-> "", Status |-> "nonexistent_status",
      Notes |-> "", AppliedAt |-> ""],
     [Company |-> "Acme", Role |-> "Engineer", URL |-> "", SalaryMin |-> <<200000>>,
      SalaryMax |-> <<100000>>, Location |-> "", Status |-> "", Notes |-> "",
      AppliedAt |-> ""],
     [Company |-> "Acme", Role |-> "Engineer", URL |-> "", SalaryMin |-> <<150000>>,
      SalaryMax |-> <<150000>>, Location |-> "", Status |-> "", Notes |-> "",
      AppliedAt |-> ""] >>

\* the fields map of Store.Update (decoded JSON object)
UpdateInputs ==
  << [k \in {} |-> ""],
     [id |-> "ffffffff", created_at |-> "1999", updated_at |-> "1999", bogus |-> "x"],
     [company |-> "NewCo", id |-> "ffffffff"],
     [company |-> "BigCo", role |-> "Senior Engineer"],
     [notes |-> "", salary_min |-> 0],
     [url |-> Nil],
     [status |-> Nil],
     [status |-> ""],
     [status |-> "offer"],
     [status |-> "nonexistent_status"],
     [salary_min |-> 200000, salary_max |-> 100000],
     [salary_min |-> 200000],
     [salary_min |-> 120000, salary_max |-> 120000] >>

\* ------------------------------------------------------------------- state
VARIABLES
  store,      \* committed rows of table applications
  version,    \* number of commits that changed the table (WAL end mark)
  wlock,      \* connection holding the engine's write lock, NoProc if free
  now,        \* wall clock, in ticks
  calls,      \* per goroutine: the Store call it is executing / has finished
  ncalls,     \* calls started so far
  lastWrite   \* per id: number of committed changes to the row with that id

vars == <<store, version, wlock, now, calls, ncalls, lastWrite>>

\* ----------------------------------------------------------------- helpers
\* time.Now().UTC().Format(time.RFC3339): whole seconds
RFC3339(t) == t \div TicksPerSecond

\* SELECT ... WHERE id = ?
RowsById(s, id) == {r \in s : r.id = id}

\* the columns named in the SET clause (besides updated_at)
SetCols(fields) == (DOMAIN fields) \cap allowed

\* REPLACE semantics: the columns not supplied fall back to their defaults
ApplyUpdate_Replace(r, fields, ts) ==
  [k \in Columns |->
     IF k \in SetCols(fields) THEN fields[k]
     ELSE IF k = "updated_at" THEN ts
     ELSE IF k \in {"id", "created_at"} THEN r[k]
     ELSE IF k \in {"salary_min", "salary_max"} THEN 0
     ELSE IF k = "status" THEN "wishlist"
     ELSE ""]

\* a supplied zero or empty string taken for "not supplied"
ApplyUpdate_SkipZero(r, fields, ts) ==
  [k \in Columns |->
     IF k \in SetCols(fields) /\ k \in {"salary_min", "salary_max"}
     THEN (IF fields[k] = 0 THEN r[k] ELSE fields[k])
     ELSE IF k \in SetCols(fields)
     THEN (IF fields[k] = "" THEN r[k] ELSE fields[k])
     ELSE IF k = "updated_at" THEN ts
     ELSE r[k]]

\* UPDATE applications SET <cols> = ?, updated_at = ? applied to one row
ApplyUpdate(r, fields, ts) ==
  [k \in Columns |->
     IF k \in SetCols(fields) THEN fields[k]
     ELSE IF k = "updated_at" THEN ts
     ELSE r[k]]

\* NOT NULL constraint of company, role, status
NotNullViolated(fields) ==
  \E k \in SetCols(fields) \cap NotNullTextCols : fields[k] = Nil

\* rows.Scan into model.Application: a NULL cannot be scanned into a string
ScanOK(r) == \A k \in TextCols : r[k] # Nil

\* an insert that stores the requested status as it is, empty or not
NewRow_NoDefault(id, req, ts) ==
  [id |-> id, company |-> req.Company, role |-> req.Role, url |-> req.URL,
   salary_min |-> IF req.SalaryMin = <<>> THEN 0 ELSE req.SalaryMin[1],
   salary_max |-> IF req.SalaryMax = <<>> THEN 0 ELSE req.SalaryMax[1],
   location |-> req.Location, status |-> req.Status,
   notes |-> req.Notes, applied_at |-> req.AppliedAt,
   created_at |-> ts, updated_at |-> ts]

\* the row Store.Create inserts
NewRow(id, req, ts) ==
  [id |-> id, company |-> req.Company, role |-> req.Role, url |-> req.URL,
   salary_min |-> IF req.SalaryMin = <<>> THEN 0 ELSE req.SalaryMin[1],
   salary_max |-> IF req.SalaryMax = <<>> THEN 0 ELSE req.SalaryMax[1],
   location |-> req.Location,
   status |-> IF req.Status = "" THEN "wishlist" ELSE req.Status,
   notes |-> req.Notes, applied_at |-> req.AppliedAt,
   created_at |-> ts, updated_at |-> ts]

IdleCall ==
  [op |-> "none", pc |-> "idle", id |-> "", fi |-> 0, ri |-> 0,
   ctxDone |-> FALSE, cancelPc |-> "never", began |-> -1,
   snapver |-> -1, existing |-> <<>>, tx |-> {}, aff |-> -1,
   status |-> "", limit |-> 0, offset |-> 0, n |-> -1,
   ret |-> <<>>, ok |-> FALSE, err |-> "nil",
   com |-> <<>>, touched |-> FALSE, cseq |-> -1,
   resp |-> [ByStatus |-> [k \in {} |-> 0], Total |-> 0, Min |-> 0, Max |-> 0,
             Avg |-> 0, Last7Days |-> 0, Last30Days |-> 0],
   tnow |-> 0, qi |-> 0, countver |-> -1, hasMore |-> FALSE]

Free(p) == calls[p].pc \in {"idle", "done"}

Fields(p) == UpdateInputs[calls[p].fi]

\* a re-read issued on the pool (s.db) instead of the transaction
TxView_Pool(p) == store

\* what the connection of call p sees: its own uncommitted rows over the store
TxView(p) == (store \ RowsById(store, calls[p].id)) \cup calls[p].tx

\* the table once the transaction of call p is committed
Committed(p) == (store \ RowsById(store, calls[p].id)) \cup calls[p].tx

\* sql.ErrNoRows passed on to the caller
AbsentErr_Propagated == "sql: no rows in result set"

\* Update's result for sql.ErrNoRows on its first read: return nil, nil
AbsentErr == "nil"

\* ------------------------------------------------------------------- Init
\* a fresh database, or one reopened with a row created earlier
SeedStores == { {}, {NewRow("a1b2c3d4", CreateInputs[2], 0)} }

Init ==
  /\ store \in SeedStores
  /\ version = 0
  /\ wlock = NoProc
  /\ now = 0
  /\ calls = [p \in Procs |-> IdleCall]
  /\ ncalls = 0
  /\ lastWrite = [i \in Ids |-> 0]

\* a return path without the deferred rollback: the transaction stays open
Return_NoRollback(p, c) ==
  /\ calls' = [calls EXCEPT ![p] = [c EXCEPT !.pc = "done", !.tx = {}, !.snapver = -1]]
  /\ UNCHANGED wlock

\* the call of p returns: deferred tx.Rollback releases the write lock
Return(p, c) ==
  /\ calls' = [calls EXCEPT ![p] = [c EXCEPT !.pc = "done", !.tx = {}, !.snapver = -1]]
  /\ wlock' = IF wlock = p THEN NoProc ELSE wlock

\* ----------------------------------------------------------- Store.Update
\* s.db.BeginTx(ctx, nil)
UpdBegin(p, id, fi, cancelled) ==
  /\ Free(p)
  /\ ncalls < MaxCalls
  /\ ncalls' = ncalls + 1
  /\ LET c == [IdleCall EXCEPT !.op = "Update", !.id = id, !.fi = fi,
                               !.began = lastWrite[id], !.ctxDone = cancelled,
                               !.cancelPc = IF cancelled THEN "before" ELSE "never"]
     IN IF cancelled
        THEN calls' = [calls EXCEPT ![p] = [c EXCEPT !.pc = "done",
                                                   !.err = "beginning transaction"]]
        ELSE calls' = [calls EXCEPT ![p] = [c EXCEPT !.pc = "begun"]]
  /\ UNCHANGED <<store, version, wlock, now, lastWrite>>

\* tx.QueryRowContext(SELECT ... WHERE id = ?).Scan(&existing), then the
\* set clauses are computed; with none the just-read record is returned.
\* cancelledAfter: the context is cancelled once the read has completed, on
\* a path that issues no further statement
UpdRead(p, cancelledAfter) ==
  /\ calls[p].pc = "begun"
  /\ LET c == calls[p]
         rows == RowsById(store, c.id)
         late == IF cancelledAfter
                 THEN [c EXCEPT !.ctxDone = TRUE, !.cancelPc = "return"]
                 ELSE c
     IN IF c.ctxDone
        THEN /\ ~cancelledAfter
             /\ Return(p, [c EXCEPT !.err = "context canceled"])
        ELSE IF rows = {}
        THEN Return(p, [late EXCEPT !.err = AbsentErr])
        ELSE LET r == CHOOSE x \in rows : TRUE
             IN IF ~ScanOK(r)
                THEN /\ ~cancelledAfter
                     /\ Return(p, [c EXCEPT !.err = "scan"])
                ELSE IF SetCols(Fields(p)) = {}
                THEN Return(p, [late EXCEPT !.existing = <<r>>, !.ret = <<r>>])
                ELSE /\ ~cancelledAfter
                     /\ calls' = [calls EXCEPT ![p] =
                                    [c EXCEPT !.pc = "read", !.snapver = version,
                                              !.existing = <<r>>]]
                     /\ UNCHANGED wlock
  /\ UNCHANGED <<store, version, now, ncalls, lastWrite>>

\* an engine that lets a transaction write over a snapshot others have changed
SnapshotStale_Never(p) == FALSE

\* the read transaction of p can no longer become a writer
SnapshotStale(p) == calls[p].snapver # version

\* tx.ExecContext(UPDATE applications SET ... WHERE id = ?)
UpdWrite(p) ==
  /\ calls[p].pc = "read"
  /\ LET c == calls[p]
         rows == RowsById(store, c.id)
         ts == RFC3339(now)
     IN IF c.ctxDone
        THEN Return(p, [c EXCEPT !.err = "context canceled"])
        ELSE IF wlock # NoProc
        THEN Return(p, [c EXCEPT !.err = "SQLITE_BUSY"])
        ELSE IF SnapshotStale(p)
        THEN Return(p, [c EXCEPT !.err = "SQLITE_BUSY_SNAPSHOT"])
        ELSE IF NotNullViolated(Fields(p))
        THEN Return(p, [c EXCEPT !.err = "NOT NULL constraint failed"])
        ELSE /\ calls' = [calls EXCEPT ![p] =
                            [c EXCEPT !.pc = "written",
                                      !.tx = {ApplyUpdate(r, Fields(p), ts) : r \in rows},
                                      !.aff = Cardinality(rows)]]
             /\ wlock' = p
  /\ UNCHANGED <<store, version, now, ncalls, lastWrite>>

\* tx.QueryRowContext(SELECT ... WHERE id = ?).Scan(&updated)
UpdReread(p) ==
  /\ calls[p].pc = "written"
  /\ LET c == calls[p]
         rows == RowsById(TxView(p), c.id)
     IN IF c.ctxDone
        THEN Return(p, [c EXCEPT !.err = "context canceled"])
        ELSE IF rows = {}
        THEN Return(p, [c EXCEPT !.err = "sql: no rows in result set"])
        ELSE LET r == CHOOSE x \in rows : TRUE
             IN IF ~ScanOK(r)
                THEN Return(p, [c EXCEPT !.err = "scan"])
                ELSE /\ calls' = [calls EXCEPT ![p] =
                                    [c EXCEPT !.pc = "reread", !.ret = <<r>>]]
                     /\ UNCHANGED wlock
  /\ UNCHANGED <<store, version, now, ncalls, lastWrite>>

\* a Commit that does not look at the context
UpdCommitCheck_NoCtx(p) ==
  /\ calls[p].pc = "reread"
  /\ calls' = [calls EXCEPT ![p] = [@ EXCEPT !.pc = "committing"]]
  /\ UNCHANGED <<store, version, wlock, now, ncalls, lastWrite>>

\* tx.Commit(), first half: database/sql refuses to commit a transaction
\* whose context is already done
UpdCommitCheck(p) ==
  /\ calls[p].pc = "reread"
  /\ LET c == calls[p]
     IN IF c.ctxDone
        THEN Return(p, [c EXCEPT !.ret = <<>>, !.err = "committing transaction"])
        ELSE /\ calls' = [calls EXCEPT ![p] = [c EXCEPT !.pc = "committing"]]
             /\ UNCHANGED wlock
  /\ UNCHANGED <<store, version, now, ncalls, lastWrite>>

\* tx.Commit(), second half: the driver commits; then return &updated, nil
UpdCommit(p) ==
  /\ calls[p].pc = "committing"
  /\ LET c == calls[p]
     IN /\ store' = Committed(p)
        /\ version' = version + 1
        /\ lastWrite' = [lastWrite EXCEPT ![c.id] = @ + 1]
        /\ wlock' = NoProc
        /\ calls' = [calls EXCEPT ![p] =
                       [c EXCEPT !.pc = "done", !.tx = {}, !.snapver = -1,
                                 !.com = <<CHOOSE x \in c.tx : TRUE>>,
                                 !.touched = (Committed(p) # store),
                                 !.cseq = lastWrite[c.id] + 1]]
  /\ UNCHANGED <<now, ncalls>>

\* tx.Commit(), second half, when the context was cancelled after the first:
\* the rollback database/sql starts on cancellation wins the race for the
\* transaction and Commit returns sql.ErrTxDone
awaitDone(p) ==
  /\ calls[p].pc = "committing"
  /\ calls[p].ctxDone
  /\ Return(p, [calls[p] EXCEPT !.ret = <<>>, !.err = "committing transaction"])
  /\ UNCHANGED <<store, version, now, ncalls, lastWrite>>

\* the caller's context is cancelled while the call is running
Cancel(p) ==
  /\ ~Free(p)
  /\ ~calls[p].ctxDone
  /\ calls' = [calls EXCEPT ![p] = [@ EXCEPT !.ctxDone = TRUE, !.cancelPc = calls[p].pc]]
  /\ UNCHANGED <<store, version, wlock, now, ncalls, lastWrite>>

\* ----------------------------------------------------------- Store.Create
\* a table whose id column is no key
PrimaryKeyTaken_Never(s, id) == FALSE

\* id TEXT PRIMARY KEY: an INSERT of an id that a row holds fails
PrimaryKeyTaken(s, id) == RowsById(s, id) # {}

\* time.Now, generateID, INSERT INTO applications ...
CreateInsert(p, id, ri) ==
  /\ Free(p)
  /\ ncalls < MaxCalls
  /\ ncalls' = ncalls + 1
  /\ LET c == [IdleCall EXCEPT !.op = "Create", !.id = id, !.ri = ri,
                               !.began = lastWrite[id]]
         row == NewRow(id, CreateInputs[ri], RFC3339(now))
     IN IF wlock # NoProc
        THEN /\ calls' = [calls EXCEPT ![p] = [c EXCEPT !.pc = "done", !.err = "SQLITE_BUSY"]]
             /\ UNCHANGED <<store, version, lastWrite>>
        ELSE IF PrimaryKeyTaken(store, id)
        THEN /\ calls' = [calls EXCEPT ![p] =
                            [c EXCEPT !.pc = "done", !.err = "UNIQUE constraint failed"]]
             /\ UNCHANGED <<store, version, lastWrite>>
        ELSE /\ store' = store \cup {row}
             /\ version' = version + 1
             /\ lastWrite' = [lastWrite EXCEPT ![id] = @ + 1]
             /\ calls' = [calls EXCEPT ![p] =
                            [c EXCEPT !.pc = "inserted", !.com = <<row>>,
                                      !.touched = TRUE, !.cseq = lastWrite[id] + 1]]
  /\ UNCHANGED <<wlock, now>>

\* a Get that passes sql.ErrNoRows on to its caller
GetResult_ErrNoRows(c, s) ==
  LET rows == RowsById(s, c.id)
  IN IF c.ctxDone THEN [c EXCEPT !.err = "context canceled"]
     ELSE IF rows = {} THEN [c EXCEPT !.err = "sql: no rows in result set"]
     ELSE LET r == CHOOSE x \in rows : TRUE
          IN IF ScanOK(r) THEN [c EXCEPT !.ret = <<r>>] ELSE [c EXCEPT !.err = "scan"]

\* Store.Get: SELECT ... WHERE id = ?; sql.ErrNoRows is (nil, nil)
GetResult(c, s) ==
  LET rows == RowsById(s, c.id)
  IN IF c.ctxDone THEN [c EXCEPT !.err = "context canceled"]
     ELSE IF rows = {} THEN c
     ELSE LET r == CHOOSE x \in rows : TRUE
          IN IF ScanOK(r) THEN [c EXCEPT !.ret = <<r>>] ELSE [c EXCEPT !.err = "scan"]

\* return s.Get(ctx, id)
CreateGet(p) ==
  /\ calls[p].pc = "inserted"
  /\ Return(p, GetResult(calls[p], store))
  /\ UNCHANGED <<store, version, now, ncalls, lastWrite>>

\* Store.Get called on its own
Get(p, id) ==
  /\ Free(p)
  /\ ncalls < MaxCalls
  /\ ncalls' = ncalls + 1
  /\ calls' = [calls EXCEPT ![p] =
                 [GetResult([IdleCall EXCEPT !.op = "Get", !.id = id,
                                             !.snapver = version], store)
                    EXCEPT !.pc = "done"]]
  /\ UNCHANGED <<store, version, wlock, now, lastWrite>>

\* ----------------------------------------------------------- Store.Delete
\* DELETE FROM applications WHERE id = ?; RowsAffected > 0
Delete(p, id) ==
  /\ Free(p)
  /\ ncalls < MaxCalls
  /\ ncalls' = ncalls + 1
  /\ LET c == [IdleCall EXCEPT !.op = "Delete", !.id = id, !.pc = "done",
                               !.began = lastWrite[id]]
         rows == RowsById(store, id)
     IN IF wlock # NoProc
        THEN /\ calls' = [calls EXCEPT ![p] = [c EXCEPT !.err = "SQLITE_BUSY"]]
             /\ UNCHANGED <<store, version, lastWrite>>
        ELSE /\ store' = store \ rows
             /\ version' = IF rows = {} THEN version ELSE version + 1
             /\ lastWrite' = IF rows = {} THEN lastWrite
                             ELSE [lastWrite EXCEPT ![id] = @ + 1]
             /\ calls' = [calls EXCEPT ![p] =
                            [c EXCEPT !.aff = Cardinality(rows), !.ok = (rows # {}),
                                      !.touched = (rows # {}),
                                      !.cseq = IF rows = {} THEN -1 ELSE lastWrite[id] + 1]]
  /\ UNCHANGED <<wlock, now>>

\* ------------------------------------------------- Store.Count, Store.List
\* a Count that forgets its WHERE clause
CountWhere_NoFilter(r, status) == TRUE

\* Count: WHERE status = ?, added only for a non-empty status
CountWhere(r, status) == status = "" \/ r.status = status

\* SELECT COUNT(*) FROM applications [WHERE status = ?]
CountRows(s, status) == Cardinality({r \in s : CountWhere(r, status)})

\* List: WHERE status = ?, added only for a non-empty status
ListWhere(r, status) == status = "" \/ r.status = status

\* ORDER BY updated_at DESC: every order of the rows that is descending in
\* updated_at; rows with equal updated_at come in an order SQLite chooses
Orderings(S) ==
  {q \in [1..Cardinality(S) -> S] :
     /\ \A i, j \in 1..Cardinality(S) : i # j => q[i] # q[j]
     /\ \A i, j \in 1..Cardinality(S) : i < j => q[i].updated_at >= q[j].updated_at}

\* a page that starts at the first row whatever the offset
Page_NoOffset(q, limit, offset) ==
  LET hi == IF limit < 0 \/ limit > Len(q) THEN Len(q) ELSE limit
  IN [i \in 1..hi |-> q[i]]

\* LIMIT ? OFFSET ?: a negative limit is no limit, a negative offset is 0
Page(q, limit, offset) ==
  LET o == IF offset < 0 THEN 0 ELSE offset
      hi == IF limit < 0 \/ o + limit > Len(q) THEN Len(q) ELSE o + limit
  IN [i \in 1..(IF hi > o THEN hi - o ELSE 0) |-> q[o + i]]

\* the results List may return on table s
ListResults(s, status, limit, offset) ==
  {Page(q, limit, offset) : q \in Orderings({r \in s : ListWhere(r, status)})}

\* Store.Count: one SELECT
Count(p, status) ==
  /\ Free(p)
  /\ ncalls < MaxCalls
  /\ ncalls' = ncalls + 1
  /\ calls' = [calls EXCEPT ![p] =
                 [IdleCall EXCEPT !.op = "Count", !.pc = "done", !.status = status,
                                  !.snapver = version,
                                  !.n = CountRows(store, status)]]
  /\ UNCHANGED <<store, version, wlock, now, lastWrite>>

\* Store.List: one SELECT, all rows scanned into a slice
List(p, status, limit, offset) ==
  /\ Free(p)
  /\ ncalls < MaxCalls
  /\ ncalls' = ncalls + 1
  /\ \E apps \in ListResults(store, status, limit, offset) :
        calls' = [calls EXCEPT ![p] =
                    [IdleCall EXCEPT !.op = "List", !.pc = "done", !.status = status,
                                     !.limit = limit, !.offset = offset,
                                     !.snapver = version, !.ret = apps]]
  /\ UNCHANGED <<store, version, wlock, now, lastWrite>>

\* ------------------------------------------------------------ Store.Stats
SecondsPerDay == 86400

RECURSIVE SumOver(_, _)
\* the sum of f[x] over the elements x of S
SumOver(f, S) ==
  IF S = {} THEN 0
  ELSE LET x == CHOOSE y \in S : TRUE IN f[x] + SumOver(f, S \ {x})

\* SELECT status, COUNT(*) FROM applications GROUP BY status
GroupCounts(s) ==
  [st \in {r.status : r \in s} |-> Cardinality({r \in s : r.status = st})]

\* a breakdown holding only the statuses the query returned
ByStatus_Sparse(s) == GroupCounts(s)

\* resp.ByStatus: every status of ValidStatuses at 0, then the group counts
ByStatus(s) ==
  LET g == GroupCounts(s)
  IN [st \in ValidStatuses \cup DOMAIN g |-> IF st \in DOMAIN g THEN g[st] ELSE 0]

\* resp.Total += count, over the groups
Total(s) == LET g == GroupCounts(s) IN SumOver(g, DOMAIN g)

\* a salary query without its WHERE clause
SalaryRows_All(s) == s

\* ... FROM applications WHERE salary_min > 0
SalaryRows(s) == {r \in s : r.salary_min > 0}

\* COALESCE(MIN(salary_min), 0)
SalaryMin(s) ==
  LET q == SalaryRows(s)
  IN IF q = {} THEN 0
     ELSE CHOOSE m \in {r.salary_min : r \in q} : \A r \in q : m <= r.salary_min

\* COALESCE(MAX(salary_max), 0)
SalaryMax(s) ==
  LET q == SalaryRows(s)
  IN IF q = {} THEN 0
     ELSE CHOOSE m \in {r.salary_max : r \in q} : \A r \in q : m >= r.salary_max

\* COALESCE(CAST(AVG(salary_min) AS INTEGER), 0): the mean, truncated
SalaryAvg(s) ==
  LET q == SalaryRows(s)
  IN IF q = {} THEN 0
     ELSE SumOver([r \in q |-> r.salary_min], q) \div Cardinality(q)

\* a window that leaves out the record created exactly N days ago
CreatedSince_Exclusive(s, t, days) ==
  Cardinality({r \in s : r.created_at > RFC3339(t) - days * SecondsPerDay})

\* a window that counts the records created at or before its bound
CreatedSince_Older(s, t, days) ==
  Cardinality({r \in s : r.created_at <= RFC3339(t) - days * SecondsPerDay})

\* SELECT COUNT(*) FROM applications WHERE created_at >= ?, bound to
\* now.AddDate(0, 0, -days).Format(time.RFC3339)
CreatedSince(s, t, days) ==
  Cardinality({r \in s : r.created_at >= RFC3339(t) - days * SecondsPerDay})

\* Query 1: status counts and total
StatsCounts(p) ==
  /\ Free(p)
  /\ ncalls < MaxCalls
  /\ ncalls' = ncalls + 1
  /\ calls' = [calls EXCEPT ![p] =
                 [IdleCall EXCEPT !.op = "Stats", !.pc = "counted",
                                  !.snapver = version,
                                  !.resp.ByStatus = ByStatus(store),
                                  !.resp.Total = Total(store)]]
  /\ UNCHANGED <<store, version, wlock, now, lastWrite>>

\* Query 2: salary aggregate
StatsSalary(p) ==
  /\ calls[p].op = "Stats" /\ calls[p].pc = "counted"
  /\ calls' = [calls EXCEPT ![p] =
                 [@ EXCEPT !.pc = "salary",
                           !.resp.Min = SalaryMin(store),
                           !.resp.Max = SalaryMax(store),
                           !.resp.Avg = SalaryAvg(store)]]
  /\ UNCHANGED <<store, version, wlock, now, ncalls, lastWrite>>

\* time.Now(), then Query 3: records created in the last 7 days
StatsLast7(p) ==
  /\ calls[p].op = "Stats" /\ calls[p].pc = "salary"
  /\ calls' = [calls EXCEPT ![p] =
                 [@ EXCEPT !.pc = "last7", !.tnow = now,
                           !.resp.Last7Days = CreatedSince(store, now, 7)]]
  /\ UNCHANGED <<store, version, wlock, now, ncalls, lastWrite>>

\* records created in the last 30 days; return resp, nil
StatsLast30(p) ==
  /\ calls[p].op = "Stats" /\ calls[p].pc = "last7"
  /\ calls' = [calls EXCEPT ![p] =
                 [@ EXCEPT !.pc = "done",
                           !.resp.Last30Days = CreatedSince(store, calls[p].tnow, 30)]]
  /\ UNCHANGED <<store, version, wlock, now, ncalls, lastWrite>>

\* ------------------------------------------------------------------ clock
Tick ==
  /\ now < MaxClock
  /\ now' = now + 1
  /\ UNCHANGED <<store, version, wlock, calls, ncalls, lastWrite>>

\* ------------------------------------------------------------------- Next
\* Update, Create and Delete calls of concurrent goroutines whose contexts
\* stay live, under a running clock
WellTyped == 1..5

Next ==
  \/ \E p \in Procs, id \in Ids, fi \in WellTyped : UpdBegin(p, id, fi, FALSE)
  \/ \E p \in Procs : UpdRead(p, FALSE)
  \/ \E p \in Procs : UpdWrite(p)
  \/ \E p \in Procs : UpdReread(p)
  \/ \E p \in Procs : UpdCommitCheck(p)
  \/ \E p \in Procs : UpdCommit(p)
  \/ \E p \in Procs, id \in Ids : CreateInsert(p, id, 1)
  \/ \E p \in Procs : CreateGet(p)
  \/ \E p \in Procs, id \in Ids : Delete(p, id)
  \/ Tick

Spec == Init /\ [][Next]_vars

\* Update calls whose context may be cancelled at any moment and whose
\* statements may fail, against concurrent Deletes
Failing == {1, 3, 6, 7}

NextCancel ==
  \/ \E p \in Procs, id \in Ids, fi \in Failing, cancelled \in BOOLEAN :
        UpdBegin(p, id, fi, cancelled)
  \/ \E p \in Procs, cancelledAfter \in BOOLEAN : UpdRead(p, cancelledAfter)
  \/ \E p \in Procs : UpdWrite(p)
  \/ \E p \in Procs : UpdReread(p)
  \/ \E p \in Procs : UpdCommitCheck(p)
  \/ \E p \in Procs : UpdCommit(p)
  \/ \E p \in Procs : awaitDone(p)
  \/ \E p \in Procs : Cancel(p)
  \/ \E p \in Procs, id \in Ids : Delete(p, id)

SpecCancel == Init /\ [][NextCancel]_vars

\* List and Count calls between Create and Delete calls
StatusFilters == {"", "wishlist", "interview", "nonexistent_status"}
Limits == {-1, 1, 500}
Offsets == {0, 1, 2}

NextQuery ==
  \/ \E p \in Procs, st \in StatusFilters : Count(p, st)
  \/ \E p \in Procs, st \in StatusFilters, l \in Limits, o \in Offsets : List(p, st, l, o)
  \/ \E p \in Procs, id \in Ids, ri \in 1..3 : CreateInsert(p, id, ri)
  \/ \E p \in Procs : CreateGet(p)
  \/ \E p \in Procs, id \in Ids : Delete(p, id)

\* a database reopened with no, one or two rows created earlier
QuerySeeds ==
  SeedStores \cup
    { {NewRow("a1b2c3d4", CreateInputs[2], 0), NewRow("0f0f0f0f", CreateInputs[1], 0)} }

InitQuery ==
  /\ store \in QuerySeeds
  /\ version = 0
  /\ wlock = NoProc
  /\ now = 0
  /\ calls = [p \in Procs |-> IdleCall]
  /\ ncalls = 0
  /\ lastWrite = [i \in Ids |-> 0]

SpecQuery == InitQuery /\ [][NextQuery]_vars

\* Stats calls next to Creates and Deletes, on databases holding records of
\* several ages and salaries
StatsRow(id, status, smin, smax, created) ==
  [id |-> id, company |-> "Acme", role |-> "Dev", url |-> "",
   salary_min |-> smin, salary_max |-> smax, location |-> "",
   status |-> status, notes |-> "", applied_at |-> "",
   created_at |-> created, updated_at |-> created]

StatsSeeds ==
  { {},
    {StatsRow("a1b2c3d4", "interview", 100000, 150000, 0),
     StatsRow("0f0f0f0f", "wishlist", 0, 200000, 0 - 7 * SecondsPerDay)},
    {StatsRow("a1b2c3d4", "offer", 100000, 150000, 0 - 30 * SecondsPerDay),
     StatsRow("0f0f0f0f", "offer", 100001, 120000, 0 - 7 * SecondsPerDay - 1)},
    {StatsRow("0f0f0f0f", "rejected", 0, 0, 0 - 30 * SecondsPerDay - 1)} }

InitStats ==
  /\ store \in StatsSeeds
  /\ version = 0
  /\ wlock = NoProc
  /\ now = 0
  /\ calls = [p \in Procs |-> IdleCall]
  /\ ncalls = 0
  /\ lastWrite = [i \in Ids |-> 0]

NextStats ==
  \/ \E p \in Procs : StatsCounts(p)
  \/ \E p \in Procs : StatsSalary(p)
  \/ \E p \in Procs : StatsLast7(p)
  \/ \E p \in Procs : StatsLast30(p)
  \/ \E p \in Procs, id \in Ids, ri \in {2, 3} : CreateInsert(p, id, ri)
  \/ \E p \in Procs : CreateGet(p)
  \/ \E p \in Procs, id \in Ids : Delete(p, id)
  \/ Tick

SpecStats == InitStats /\ [][NextStats]_vars

\* Get, Delete, List, Count and Stats calls between Creates
NextCrud ==
  \/ \E p \in Procs, id \in Ids : Get(p, id)
  \/ \E p \in Procs, id \in Ids : Delete(p, id)
  \/ \E p \in Procs, id \in Ids : CreateInsert(p, id, 2)
  \/ \E p \in Procs : CreateGet(p)
  \/ \E p \in Procs, st \in {"", "interview"} : Count(p, st)
  \/ \E p \in Procs, st \in {"", "interview"} : List(p, st, 500, 0)
  \/ \E p \in Procs : StatsCounts(p)
  \/ \E p \in Procs : StatsSalary(p)
  \/ \E p \in Procs : StatsLast7(p)
  \/ \E p \in Procs : StatsLast30(p)

SpecCrud == InitQuery /\ [][NextCrud]_vars

\* goroutines that call Create once each, at the same time
ConcurrentCreate(p, id, ri) ==
  /\ calls[p].op = "none"
  /\ CreateInsert(p, id, ri)

NextCreate ==
  \/ \E p \in Procs, id \in Ids, ri \in {1, 2} : ConcurrentCreate(p, id, ri)
  \/ \E p \in Procs : CreateGet(p)
  \/ Tick

SpecCreate == Init /\ [][NextCreate]_vars

\* ------------------------------------------- a pool of a single connection
\* a cursor that stays open until the deferred rows.Close() of the return
CursorOpen_UntilReturn(c) == c.pc \in {"counted", "salary", "last7"}

\* the cursor of Stats' Query 1 once its loop has ended: rows.Next() returned
\* false, which closes the rows and hands the connection back to the pool
CursorOpen(c) == FALSE

\* goroutine q holds the connection: an Update between BeginTx and its
\* Commit or Rollback, or a Stats whose cursor is open
HoldsConn(q) ==
  \/ /\ calls[q].op = "Update"
     /\ calls[q].pc \in {"begun", "read", "written", "reread", "committing"}
  \/ calls[q].op = "Stats" /\ CursorOpen(calls[q])

\* db.SetMaxOpenConns(1): a statement issued on the pool (s.db) waits until
\* no goroutine holds the connection
ConnFree == \A q \in Procs : ~HoldsConn(q)

\* the calls of the Store with every pool statement waiting for the
\* connection; the statements of a transaction run on the connection it holds
NextPool ==
  \/ \E p \in Procs, id \in Ids : ConnFree /\ UpdBegin(p, id, 4, FALSE)
  \/ \E p \in Procs : UpdRead(p, FALSE)
  \/ \E p \in Procs : UpdWrite(p)
  \/ \E p \in Procs : UpdReread(p)
  \/ \E p \in Procs : UpdCommitCheck(p)
  \/ \E p \in Procs : UpdCommit(p)
  \/ \E p \in Procs, id \in Ids : ConnFree /\ CreateInsert(p, id, 1)
  \/ \E p \in Procs : ConnFree /\ CreateGet(p)
  \/ \E p \in Procs, id \in Ids : ConnFree /\ Delete(p, id)
  \/ \E p \in Procs, id \in Ids : ConnFree /\ Get(p, id)
  \/ \E p \in Procs : ConnFree /\ Count(p, "")
  \/ \E p \in Procs : ConnFree /\ List(p, "", 500, 0)
  \/ \E p \in Procs : ConnFree /\ StatsCounts(p)
  \/ \E p \in Procs : ConnFree /\ StatsSalary(p)
  \/ \E p \in Procs : ConnFree /\ StatsLast7(p)
  \/ \E p \in Procs : ConnFree /\ StatsLast30(p)

SpecPool == Init /\ [][NextPool]_vars

\* the goroutines are scheduled: a step that can be taken is taken in the end
SpecPoolFair == SpecPool /\ WF_vars(NextPool)

\* ---------------------------------------------------------------- handler
\* model.ValidateStatus: nil for the empty string and for the nine statuses
ValidateStatus(status) == status = "" \/ status \in ValidStatuses

\* a Validate without the comparison of the two salaries
Validate_NoSalaryCheck(req) ==
  /\ req.Company # ""
  /\ req.Role # ""
  /\ (req.Status = "" \/ req.Status \in ValidStatuses)

\* CreateRequest.Validate returns nil
Validate(req) ==
  /\ req.Company # ""
  /\ req.Role # ""
  /\ (req.Status = "" \/ req.Status \in ValidStatuses)
  /\ ~(req.SalaryMin # <<>> /\ req.SalaryMax # <<>> /\ req.SalaryMin[1] > req.SalaryMax[1])

\* the checks of Handler.UpdateApplication on the decoded body: a status
\* that is a string is validated, the salaries are compared when both given
UpdateValid(fields) ==
  /\ ("status" \in DOMAIN fields /\ fields["status"] # Nil)
        => ValidateStatus(fields["status"])
  /\ ({"salary_min", "salary_max"} \subseteq DOMAIN fields)
        => ~(fields["salary_min"] > fields["salary_max"])

\* the handler answers request c with 400 without calling the store
respondError(p, c) ==
  /\ Free(p)
  /\ ncalls < MaxCalls
  /\ ncalls' = ncalls + 1
  /\ calls' = [calls EXCEPT ![p] = [c EXCEPT !.pc = "done", !.err = "400"]]
  /\ UNCHANGED <<store, version, wlock, now, lastWrite>>

\* Handler.CreateApplication: Validate, then Store.Create
CreateApplication(p, id, ri) ==
  IF Validate(CreateInputs[ri])
  THEN CreateInsert(p, id, ri)
  ELSE respondError(p, [IdleCall EXCEPT !.op = "Create", !.id = id, !.ri = ri])

\* Handler.UpdateApplication: the checks, then Store.Update
UpdateApplication(p, id, fi) ==
  IF UpdateValid(UpdateInputs[fi])
  THEN UpdBegin(p, id, fi, FALSE)
  ELSE respondError(p, [IdleCall EXCEPT !.op = "Update", !.id = id, !.fi = fi])

\* request bodies of PUT /applications/{id}
Bodies == {4, 7, 8, 9, 10, 11}

NextHandler ==
  \/ \E p \in Procs, id \in Ids, ri \in 1..3 : CreateApplication(p, id, ri)
  \/ \E p \in Procs : CreateGet(p)
  \/ \E p \in Procs, id \in Ids, fi \in Bodies : UpdateApplication(p, id, fi)
  \/ \E p \in Procs : UpdRead(p, FALSE)
  \/ \E p \in Procs : UpdWrite(p)
  \/ \E p \in Procs : UpdReread(p)
  \/ \E p \in Procs : UpdCommitCheck(p)
  \/ \E p \in Procs : UpdCommit(p)

SpecHandler == Init /\ [][NextHandler]_vars

\* requests that carry no, one or both salary bounds
SalaryRequests == {1, 4, 5}
SalaryBodies == {11, 12, 13}

NextSalary ==
  \/ \E p \in Procs, id \in Ids, ri \in SalaryRequests : CreateApplication(p, id, ri)
  \/ \E p \in Procs : CreateGet(p)
  \/ \E p \in Procs, id \in Ids, fi \in SalaryBodies : UpdateApplication(p, id, fi)
  \/ \E p \in Procs : UpdRead(p, FALSE)
  \/ \E p \in Procs : UpdWrite(p)
  \/ \E p \in Procs : UpdReread(p)
  \/ \E p \in Procs : UpdCommitCheck(p)
  \/ \E p \in Procs : UpdCommit(p)

SpecSalary == Init /\ [][NextSalary]_vars

\* ------------------------------------------------- list query (ListOptions)
\* the characters of the texts that records and filters of the model hold
CharTable ==
  ("" :> <<>>) @@
  ("Acme" :> <<"A", "c", "m", "e">>) @@
  ("ACME" :> <<"A", "C", "M", "E">>) @@
  ("Beta" :> <<"B", "e", "t", "a">>) @@
  ("acme" :> <<"a", "c", "m", "e">>) @@
  ("%" :> <<"%">>) @@
  ("_cme" :> <<"_", "c", "m", "e">>) @@
  ("Dev" :> <<"D", "e", "v">>) @@
  ("QA" :> <<"Q", "A">>) @@
  ("dev" :> <<"d", "e", "v">>) @@
  ("Remote" :> <<"R", "e", "m", "o", "t", "e">>) @@
  ("NYC" :> <<"N", "Y", "C">>) @@
  ("MOT" :> <<"M", "O", "T">>)

Chars(str) == CharTable[str]

\* SQL LOWER(): the ASCII capitals folded
LowerTable ==
  ("A" :> "a") @@ ("B" :> "b") @@ ("C" :> "c") @@ ("D" :> "d") @@ ("E" :> "e") @@
  ("M" :> "m") @@ ("N" :> "n") @@ ("O" :> "o") @@ ("Q" :> "q") @@ ("R" :> "r") @@
  ("T" :> "t") @@ ("Y" :> "y")

LOWER(cs) ==
  [i \in 1..Len(cs) |-> IF cs[i] \in DOMAIN LowerTable THEN LowerTable[cs[i]] ELSE cs[i]]

RECURSIVE Like(_, _)
\* SQL txt LIKE pat: % stands for any run of characters, _ for any one
Like(pat, txt) ==
  IF pat = <<>> THEN txt = <<>>
  ELSE IF Head(pat) = "%"
  THEN Like(Tail(pat), txt) \/ (txt # <<>> /\ Like(pat, Tail(txt)))
  ELSE /\ txt # <<>>
       /\ (Head(pat) = "_" \/ Head(pat) = Head(txt))
       /\ Like(Tail(pat), Tail(txt))

\* LOWER(col) LIKE LOWER(?), bound to "%" + filter + "%"
LikeClause(value, filter) ==
  Like(LOWER(<<"%">> \o Chars(filter) \o <<"%">>), LOWER(Chars(value)))

\* a query parameter that is to be an integer: absent, not a number, or n
NoParam == [set |-> FALSE, num |-> FALSE, n |-> 0]
NaN == [set |-> TRUE, num |-> FALSE, n |-> 0]
Num(n) == [set |-> TRUE, num |-> TRUE, n |-> n]

\* the query string of GET /applications
BaseQuery ==
  [status |-> "", limit |-> NoParam, offset |-> NoParam, sort_by |-> "",
   sort_order |-> "", company |-> "", role |-> "", location |-> "",
   applied_after |-> NoParam, applied_before |-> NoParam,
   salary_min_gte |-> NoParam, salary_max_lte |-> NoParam]

Queries ==
  << BaseQuery,
     [BaseQuery EXCEPT !.status = "interview"],
     [BaseQuery EXCEPT !.company = "acme"],
     [BaseQuery EXCEPT !.company = "%"],
     [BaseQuery EXCEPT !.company = "_cme"],
     [BaseQuery EXCEPT !.status = "interview", !.role = "dev", !.location = "MOT"],
     [BaseQuery EXCEPT !.salary_max_lte = Num(0)],
     [BaseQuery EXCEPT !.salary_max_lte = Num(100000)],
     [BaseQuery EXCEPT !.salary_min_gte = Num(0)],
     [BaseQuery EXCEPT !.salary_min_gte = Num(100000), !.salary_max_lte = Num(150000)],
     [BaseQuery EXCEPT !.applied_after = Num(10), !.applied_before = Num(10)],
     [BaseQuery EXCEPT !.limit = Num(1), !.offset = Num(1)],
     [BaseQuery EXCEPT !.limit = Num(0)],
     [BaseQuery EXCEPT !.limit = Num(501)],
     [BaseQuery EXCEPT !.limit = NaN],
     [BaseQuery EXCEPT !.offset = Num(0 - 1)],
     [BaseQuery EXCEPT !.sort_by = "bogus"],
     [BaseQuery EXCEPT !.sort_by = "salary_min", !.sort_order = "asc"],
     [BaseQuery EXCEPT !.sort_order = "sideways"],
     [BaseQuery EXCEPT !.status = "nonexistent_status"],
     [BaseQuery EXCEPT !.salary_max_lte = Num(0 - 1)] >>

DefaultLimit == 50
MaxLimit == 500

ValidSortColumns ==
  {"company", "role", "status", "salary_min", "salary_max", "location",
   "created_at", "updated_at"}

\* checks that let any limit, offset and sort column through
QueryValid_Lenient(q) ==
  /\ ValidateStatus(q.status)
  /\ (IF q.sort_order = "" THEN "desc" ELSE q.sort_order) \in {"asc", "desc"}
  /\ q.applied_after.set => q.applied_after.num
  /\ q.applied_before.set => q.applied_before.num
  /\ q.salary_min_gte.set => (q.salary_min_gte.num /\ ~(q.salary_min_gte.n < 0))
  /\ q.salary_max_lte.set => (q.salary_max_lte.num /\ ~(q.salary_max_lte.n < 0))

\* Handler.ListApplications, the checks: which query strings get past them
QueryValid(q) ==
  /\ ValidateStatus(q.status)
  /\ q.limit.set => (q.limit.num /\ ~(q.limit.n < 1 \/ q.limit.n > MaxLimit))
  /\ q.offset.set => (q.offset.num /\ ~(q.offset.n < 0))
  /\ (IF q.sort_by = "" THEN "updated_at" ELSE q.sort_by) \in ValidSortColumns
  /\ (IF q.sort_order = "" THEN "desc" ELSE q.sort_order) \in {"asc", "desc"}
  /\ q.applied_after.set => q.applied_after.num
  /\ q.applied_before.set => q.applied_before.num
  /\ q.salary_min_gte.set => (q.salary_min_gte.num /\ ~(q.salary_min_gte.n < 0))
  /\ q.salary_max_lte.set => (q.salary_max_lte.num /\ ~(q.salary_max_lte.n < 0))

\* a handler that takes salary_max_lte=0 for "not given"
HasSalaryMaxLTE_Positive(q) == q.salary_max_lte.set /\ q.salary_max_lte.n > 0

\* hasSalaryMaxLTE: true once the parameter is present and parsed
HasSalaryMaxLTE(q) == q.salary_max_lte.set

\* Handler.ListApplications: the model.ListOptions built from the query
ListOptions(q) ==
  [Status |-> q.status,
   Limit |-> IF q.limit.set THEN q.limit.n ELSE DefaultLimit,
   Offset |-> IF q.offset.set THEN q.offset.n ELSE 0,
   SortBy |-> IF q.sort_by = "" THEN "updated_at" ELSE q.sort_by,
   SortOrder |-> IF q.sort_order = "" THEN "desc" ELSE q.sort_order,
   Company |-> q.company, Role |-> q.role, Location |-> q.location,
   AppliedAfter |-> q.applied_after, AppliedBefore |-> q.applied_before,
   SalaryMinGTE |-> q.salary_min_gte.n, SalaryMaxLTE |-> q.salary_max_lte.n,
   HasSalaryMinGTE |-> q.salary_min_gte.set,
   HasSalaryMaxLTE |-> HasSalaryMaxLTE(q)]

\* buildWhere, the conditions after status and company: role and location
\* as company, the created_at bounds, the salary bounds
additionalFilters(opts, r) ==
  /\ opts.Role # "" => LikeClause(r.role, opts.Role)
  /\ opts.Location # "" => LikeClause(r.location, opts.Location)
  /\ opts.AppliedAfter.set => r.created_at >= opts.AppliedAfter.n
  /\ opts.AppliedBefore.set => r.created_at <= opts.AppliedBefore.n
  /\ opts.HasSalaryMinGTE => r.salary_min >= opts.SalaryMinGTE
  /\ opts.HasSalaryMaxLTE => (r.salary_max <= opts.SalaryMaxLTE /\ r.salary_max > 0)

\* Store.buildWhere: WHERE 1=1 and one AND-ed condition per filter present
buildWhere(opts, r) ==
  /\ opts.Status # "" => r.status = opts.Status
  /\ opts.Company # "" => LikeClause(r.company, opts.Company)
  /\ additionalFilters(opts, r)

\* ORDER BY <SortBy> <ASC|DESC>: every order of the rows that the clause
\* allows; rows with equal keys come in an order SQLite chooses
OrderBy(S, col, desc) ==
  {q \in [1..Cardinality(S) -> S] :
     /\ \A i, j \in 1..Cardinality(S) : i # j => q[i] # q[j]
     /\ \A i, j \in 1..Cardinality(S) :
          i < j => IF desc THEN q[i][col] >= q[j][col] ELSE q[i][col] <= q[j][col]}

\* Store.List(ctx, opts): the results it may return on table s
ListOpts(s, opts) ==
  LET col == IF opts.SortBy # "" /\ opts.SortBy \in ValidSortColumns
             THEN opts.SortBy ELSE "updated_at"
      desc == IF opts.SortBy # "" /\ opts.SortBy \in ValidSortColumns
              THEN opts.SortOrder = "desc" ELSE TRUE
  IN {Page(q, opts.Limit, opts.Offset) :
        q \in OrderBy({r \in s : buildWhere(opts, r)}, col, desc)}

\* Store.Count(ctx, opts)
CountOpts(s, opts) == Cardinality({r \in s : buildWhere(opts, r)})

\* GET /applications: the checks, then h.store.List
ListApplications(p, qi) ==
  IF QueryValid(Queries[qi])
  THEN /\ Free(p)
       /\ ncalls < MaxCalls
       /\ ncalls' = ncalls + 1
       /\ \E apps \in ListOpts(store, ListOptions(Queries[qi])) :
             calls' = [calls EXCEPT ![p] =
                         [IdleCall EXCEPT !.op = "ListApplications", !.pc = "listed",
                                          !.qi = qi, !.snapver = version,
                                          !.ret = apps]]
       /\ UNCHANGED <<store, version, wlock, now, lastWrite>>
  ELSE respondError(p, [IdleCall EXCEPT !.op = "ListApplications", !.qi = qi])

\* a has_more that is also true when the page ends at the last record
HasMore_Inclusive(offset, len, total) == offset + len <= total

\* PaginationMeta.HasMore: offset+len(apps) < total
HasMore(offset, len, total) == offset + len < total

\* h.store.Count, then the paginated response
ListTotal(p) ==
  /\ calls[p].op = "ListApplications" /\ calls[p].pc = "listed"
  /\ LET opts == ListOptions(Queries[calls[p].qi])
         total == CountOpts(store, opts)
     IN calls' = [calls EXCEPT ![p] =
                    [@ EXCEPT !.pc = "done", !.n = total, !.countver = version,
                              !.hasMore = HasMore(opts.Offset, Len(calls[p].ret), total)]]
  /\ UNCHANGED <<store, version, wlock, now, ncalls, lastWrite>>

\* a database holding three records, two of them updated in the same second
ListRow(id, company, role, location, status, smin, smax, created, updated) ==
  [id |-> id, company |-> company, role |-> role, url |-> "",
   salary_min |-> smin, salary_max |-> smax, location |-> location,
   status |-> status, notes |-> "", applied_at |-> "",
   created_at |-> created, updated_at |-> updated]

ListSeeds ==
  LET r1 == ListRow("a1b2c3d4", "Acme", "Dev", "Remote", "interview", 100000, 150000, 0, 20)
      r2 == ListRow("0f0f0f0f", "Beta", "QA", "NYC", "applied", 50000, 0, 10, 10)
      r3 == ListRow("c0ffee00", "ACME", "Dev", "", "interview", 0, 100000, 20, 20)
  IN { {}, {r1, r2}, {r1, r2, r3} }

InitList ==
  /\ store \in ListSeeds
  /\ version = 0
  /\ wlock = NoProc
  /\ now = 0
  /\ calls = [p \in Procs |-> IdleCall]
  /\ ncalls = 0
  /\ lastWrite = [i \in Ids |-> 0]

NextList ==
  \/ \E p \in Procs, qi \in 1..Len(Queries) : ListApplications(p, qi)
  \/ \E p \in Procs : ListTotal(p)
  \/ \E p \in Procs, id \in Ids : Delete(p, id)

SpecList == InitList /\ [][NextList]_vars

\* ------------------------------------------------------------- properties
Done(p, op) == calls[p].op = op /\ calls[p].pc = "done"

\* C1: a Count and a List with unbounded limit and offset 0 that ran with the
\* same status filter on the same table contents (no write between them)
\* agree: the count is the number of records listed.
C1_CountEqualsList ==
  \A p, q \in Procs :
    ( /\ Done(p, "List") /\ Done(q, "Count")
      /\ calls[p].err = "nil" /\ calls[q].err = "nil"
      /\ calls[p].status = calls[q].status
      /\ calls[p].limit < 0 /\ calls[p].offset = 0
      /\ calls[p].snapver = calls[q].snapver )
    => calls[q].n = Len(calls[p].ret)

C1_Witness ==
  \E p, q \in Procs :
    /\ Done(p, "List") /\ Done(q, "Count")
    /\ calls[p].status = "interview" /\ calls[q].status = "interview"
    /\ calls[p].limit < 0 /\ calls[p].offset = 0
    /\ calls[p].snapver = calls[q].snapver
    /\ calls[q].n = 1 /\ Len(calls[p].ret) = 1
    /\ Cardinality(store) = 2

\* the mutable attributes of a record: all but id and the two timestamps
MutableAttrs == Columns \ {"id", "created_at", "updated_at"}

\* the attributes a call of Update asks to change
Supplied(p) == (DOMAIN Fields(p)) \cap MutableAttrs

\* Update returned a record, no error, after committing a write
UpdOK(p) == Done(p, "Update") /\ calls[p].err = "nil" /\ calls[p].cseq # -1

\* C2: when the Updates of a set of calls on one id, with pairwise disjoint
\* change sets, all returned without error and are the latest changes of the
\* row, the stored row carries every supplied value of every one of them.
C2_NoLostUpdate ==
  \A T \in SUBSET Procs : \A id \in Ids :
    ( /\ T # {}
      /\ \A p \in T : UpdOK(p) /\ calls[p].id = id
      /\ \A p, q \in T : p # q => Supplied(p) \cap Supplied(q) = {}
      /\ {calls[p].cseq : p \in T} = (lastWrite[id] - Cardinality(T) + 1)..lastWrite[id] )
    => \E r \in RowsById(store, id) :
         \A p \in T : \A k \in Supplied(p) : r[k] = Fields(p)[k]

\* two Updates of disjoint attributes that overlapped in time and both succeeded
C2_Witness ==
  \E p, q \in Procs : \E r \in store :
    /\ p # q /\ UpdOK(p) /\ UpdOK(q)
    /\ calls[p].id = calls[q].id /\ r.id = calls[p].id
    /\ calls[p].fi = 3 /\ calls[q].fi = 5
    /\ calls[q].began < calls[p].cseq /\ calls[p].cseq < calls[q].cseq
    /\ r.company = "NewCo" /\ r.notes = "" /\ r.salary_min = 0

\* C3: an Update with a non-empty change set that returns a record and no
\* error has written one row, and the record it returns is the row it
\* committed, with the changes applied; otherwise it returned absent or an
\* error.
C3_UpdateNeverSilentlyMisses ==
  \A p \in Procs :
    (Done(p, "Update") /\ Supplied(p) # {} /\ calls[p].err = "nil" /\ calls[p].ret # <<>>)
    => /\ calls[p].aff >= 1
       /\ calls[p].ret = calls[p].com
       /\ \A k \in Supplied(p) : calls[p].ret[1][k] = Fields(p)[k]

\* an Update read its row, a Delete removed the row, the Update's write failed
C3_Witness ==
  \E p \in Procs :
    /\ Done(p, "Update") /\ Supplied(p) # {}
    /\ calls[p].existing # <<>>
    /\ calls[p].err = "SQLITE_BUSY_SNAPSHOT"
    /\ RowsById(store, calls[p].id) = {}

\* C4: the step by which an Update with no whitelisted key reads an existing
\* row writes nothing (table, log and write lock unchanged) and returns that
\* row without error.
C4_NoWhitelistedKeyWritesNothing ==
  [][\A p \in Procs :
       ( /\ calls[p].op = "Update" /\ calls[p].pc = "begun"
         /\ calls'[p].pc # "begun"
         /\ Supplied(p) = {}
         /\ RowsById(store, calls[p].id) # {} )
       => /\ store' = store /\ version' = version /\ wlock' = wlock
          /\ calls'[p].pc = "done" /\ calls'[p].err = "nil"
          /\ calls'[p].ret = <<CHOOSE r \in RowsById(store, calls[p].id) : TRUE>>
          /\ ~calls'[p].touched]_vars

\* an Update carrying only unknown keys (id, created_at, updated_at among
\* them) has returned the stored row
C4_Witness ==
  \E p \in Procs :
    /\ Done(p, "Update") /\ calls[p].fi = 2
    /\ calls[p].err = "nil" /\ calls[p].ret # <<>>
    /\ RowsById(store, calls[p].id) = {calls[p].ret[1]}

\* C5: the step by which an Update reads an id that has no row returns
\* absent (no record, no error) and changes nothing.
C5_UpdateAbsent ==
  [][\A p \in Procs :
       ( /\ calls[p].op = "Update" /\ calls[p].pc = "begun"
         /\ calls'[p].pc # "begun"
         /\ RowsById(store, calls[p].id) = {} )
       => /\ store' = store /\ version' = version /\ wlock' = wlock
          /\ calls'[p].pc = "done" /\ calls'[p].err = "nil"
          /\ calls'[p].ret = <<>>
          /\ ~calls'[p].touched]_vars

\* an Update with a real change on an id without row returned absent while
\* another row exists
C5_Witness ==
  \E p \in Procs :
    /\ Done(p, "Update") /\ calls[p].fi = 3
    /\ calls[p].existing = <<>> /\ calls[p].ret = <<>> /\ calls[p].err = "nil"
    /\ store # {}

\* the row an Update of call p is to make of row old when it writes at time t
Expected(p, old, t) ==
  [k \in Columns |->
     IF k \in Supplied(p) THEN Fields(p)[k]
     ELSE IF k = "updated_at" THEN RFC3339(t)
     ELSE old[k]]

\* C6: the write of an Update makes of the row it read a row with exactly
\* the supplied mutable attributes set to the supplied values and updated_at
\* set to the time of the write, every other column (id and created_at
\* included) as read; its commit stores that row, changes no other row, and
\* returns that row without error.
C6_UpdateSetsExactlySupplied ==
  [][\A p \in Procs :
       /\ (calls[p].op = "Update" /\ calls[p].pc = "read" /\ calls'[p].pc = "written")
            => /\ calls'[p].tx = {Expected(p, calls[p].existing[1], now)}
               /\ store' = store
       /\ (calls[p].op = "Update" /\ calls[p].pc = "committing" /\ calls'[p].pc = "done")
            => /\ store' = (store \ RowsById(store, calls[p].id)) \cup calls[p].tx
               /\ calls'[p].ret = <<CHOOSE r \in calls[p].tx : TRUE>>
               /\ calls'[p].err = "nil"]_vars

\* an Update that supplied an empty string and a zero stored them
C6_Witness ==
  \E p \in Procs : \E r \in store :
    /\ UpdOK(p) /\ calls[p].fi = 5 /\ r.id = calls[p].id
    /\ calls[p].existing[1].notes = "first call"
    /\ calls[p].existing[1].salary_min = 100000
    /\ r.notes = "" /\ r.salary_min = 0 /\ r.company = "Acme"
    /\ r.updated_at = 1 /\ r.created_at = 0

\* C7 (as claimed): the updated_at of the row a successful Update commits is
\* strictly greater than the updated_at of the row it read.
C7_UpdatedAtStrictlyAdvances ==
  \A p \in Procs :
    UpdOK(p) => calls[p].com[1].updated_at > calls[p].existing[1].updated_at

\* the errors Update returns before it calls Commit
PreCommitErrors ==
  {"context canceled", "SQLITE_BUSY", "SQLITE_BUSY_SNAPSHOT",
   "NOT NULL constraint failed", "sql: no rows in result set", "scan"}

\* C8: an Update that returned an error of its read, write or re-read has
\* changed no row, returns no record and holds no open transaction.
C8_FailedUpdateLeavesNoTrace ==
  \A p \in Procs :
    (Done(p, "Update") /\ calls[p].err \in PreCommitErrors)
    => /\ ~calls[p].touched /\ calls[p].cseq = -1
       /\ calls[p].ret = <<>>
       /\ wlock # p
       /\ (lastWrite[calls[p].id] = calls[p].began /\ calls[p].existing # <<>>
             => RowsById(store, calls[p].id) = {calls[p].existing[1]})

\* an Update whose write succeeded and whose re-read failed: the row is as read
C8_Witness ==
  \E p \in Procs :
    /\ Done(p, "Update") /\ calls[p].err = "scan"
    /\ calls[p].aff = 1
    /\ RowsById(store, calls[p].id) = {calls[p].existing[1]}
    /\ wlock = NoProc

\* C9 (as claimed): an Update whose context was cancelled after BeginTx and
\* before its commit succeeded returns an error, no record, and changed nothing.
C9_CancelAlwaysFails ==
  \A p \in Procs :
    ( /\ Done(p, "Update")
      /\ calls[p].cancelPc \in {"begun", "read", "written", "reread", "committing"} )
    => calls[p].err # "nil" /\ calls[p].ret = <<>> /\ ~calls[p].touched

\* C9 (amended): cancelled before Update issues its read, its write, its
\* re-read or its Commit, it returns an error, no record, and changed
\* nothing; cancelled while Commit runs, it either does the same or returns
\* the record with the row committed with all the changes; cancelled after
\* the read on a path that writes nothing, it returns what it read (the
\* record, or absent) and changed nothing.
C9_CancelBeforeCommitFails ==
  \A p \in Procs :
    Done(p, "Update") =>
      /\ calls[p].cancelPc \in {"begun", "read", "written", "reread"}
           => /\ calls[p].err # "nil" /\ calls[p].ret = <<>>
              /\ ~calls[p].touched /\ calls[p].cseq = -1
      /\ calls[p].cancelPc = "committing"
           => \/ /\ calls[p].err # "nil" /\ calls[p].ret = <<>>
                 /\ ~calls[p].touched /\ calls[p].cseq = -1
              \/ /\ calls[p].err = "nil" /\ calls[p].ret = calls[p].com
                 /\ \A k \in Supplied(p) : calls[p].com[1][k] = Fields(p)[k]
                 /\ \A k \in Columns \ (Supplied(p) \cup {"updated_at"}) :
                      calls[p].com[1][k] = calls[p].existing[1][k]
      /\ calls[p].cancelPc = "return"
           => /\ calls[p].err = "nil" /\ calls[p].ret = calls[p].existing
              /\ ~calls[p].touched /\ calls[p].cseq = -1

\* an Update cancelled after its write returned an error; the row is as read
C9_Witness ==
  \E p \in Procs :
    /\ Done(p, "Update") /\ calls[p].cancelPc = "written"
    /\ calls[p].aff = 1 /\ calls[p].err = "context canceled"
    /\ RowsById(store, calls[p].id) = {calls[p].existing[1]}

\* C10: of two successful Updates of one id, the later to commit being the
\* latest change of the row, every attribute both assign holds the value of
\* the later one.
C10_LastCommitWins ==
  \A p, q \in Procs :
    ( /\ p # q /\ UpdOK(p) /\ UpdOK(q)
      /\ calls[p].id = calls[q].id
      /\ calls[p].cseq < calls[q].cseq
      /\ lastWrite[calls[q].id] = calls[q].cseq )
    => \E r \in RowsById(store, calls[q].id) :
         \A k \in Supplied(p) \cap Supplied(q) : r[k] = Fields(q)[k]

\* two overlapping Updates assigned company different values; both
\* succeeded and the later commit's value is stored
C10_Witness ==
  \E p, q \in Procs : \E r \in store :
    /\ p # q /\ UpdOK(p) /\ UpdOK(q)
    /\ calls[p].id = calls[q].id /\ r.id = calls[q].id
    /\ calls[p].fi = 3 /\ calls[q].fi = 4
    /\ calls[q].began < calls[p].cseq /\ calls[p].cseq < calls[q].cseq
    /\ r.company = "BigCo"

\* C11: the record a successful Update returns is the record it read at the
\* start of its transaction with the supplied whitelisted attributes and
\* updated_at replaced, and nothing else: no change another writer made
\* shows in it.
C11_ReturnedIsReadPlusChanges ==
  \A p \in Procs :
    UpdOK(p) =>
      \A k \in Columns \ {"updated_at"} :
        calls[p].ret[1][k] = IF k \in Supplied(p) THEN Fields(p)[k]
                             ELSE calls[p].existing[1][k]

\* an Update succeeded while another Update of the same row, of other
\* attributes, ran into its write lock
C11_Witness ==
  \E p, q \in Procs :
    /\ p # q /\ UpdOK(p) /\ calls[p].fi = 4
    /\ Done(q, "Update") /\ calls[q].id = calls[p].id /\ calls[q].fi = 5
    /\ calls[q].err = "SQLITE_BUSY"
    /\ calls[p].ret[1].company = "BigCo" /\ calls[p].ret[1].notes = "first call"

\* C12 (as claimed): every stored record's status is one of the nine values
\* of the enumeration, after any Create and Update requests the handlers
\* accepted.
C12_StoredStatusValid ==
  \A r \in store : r.status \in ValidStatuses

\* a Stats call that has returned, no write having happened since it began
StatsOf(p) == Done(p, "Stats") /\ calls[p].snapver = version

\* C13: the breakdown of a Stats result holds every status of the
\* enumeration, a status no record has with count 0, and total is the number
\* of stored records; on an empty store the total, every count, the three
\* salary values and both windows are 0.
C13_StatsBreakdownComplete ==
  \A p \in Procs :
    StatsOf(p) =>
      LET resp == calls[p].resp
      IN /\ ValidStatuses \subseteq DOMAIN resp.ByStatus
         /\ \A st \in DOMAIN resp.ByStatus :
              resp.ByStatus[st] = Cardinality({r \in store : r.status = st})
         /\ resp.Total = Cardinality(store)
         /\ store = {} =>
              /\ resp.Total = 0 /\ \A st \in ValidStatuses : resp.ByStatus[st] = 0
              /\ resp.Min = 0 /\ resp.Max = 0 /\ resp.Avg = 0
              /\ resp.Last7Days = 0 /\ resp.Last30Days = 0

\* Stats over two records of two statuses: seven statuses are reported at 0
C13_Witness ==
  \E p \in Procs :
    /\ StatsOf(p) /\ Cardinality(store) = 2
    /\ calls[p].resp.Total = 2
    /\ calls[p].resp.ByStatus["interview"] = 1
    /\ calls[p].resp.ByStatus["wishlist"] = 1
    /\ calls[p].resp.ByStatus["ghosted"] = 0

\* C14: the salary range of a Stats result is taken over the records whose
\* salary_min is greater than 0 only: min is the least salary_min, max the
\* greatest salary_max, avg the mean of salary_min cut to an integer; with
\* no such record all three are 0.
C14_SalaryRangeOverPositive ==
  \A p \in Procs :
    StatsOf(p) =>
      LET resp == calls[p].resp
          q == {r \in store : r.salary_min > 0}
          sum == SumOver([r \in q |-> r.salary_min], q)
      IN IF q = {}
         THEN resp.Min = 0 /\ resp.Max = 0 /\ resp.Avg = 0
         ELSE /\ \E r \in q : r.salary_min = resp.Min
              /\ \A r \in q : resp.Min <= r.salary_min
              /\ \E r \in q : r.salary_max = resp.Max
              /\ \A r \in q : resp.Max >= r.salary_max
              /\ resp.Avg * Cardinality(q) <= sum
              /\ sum < (resp.Avg + 1) * Cardinality(q)

\* a record with salary_min 0 and the greatest salary_max is left out
C14_Witness ==
  \E p \in Procs :
    /\ StatsOf(p)
    /\ \E r \in store : r.salary_min = 0 /\ r.salary_max = 200000
    /\ \E r \in store : r.salary_min = 100000 /\ r.salary_max = 150000
    /\ calls[p].resp.Min = 100000 /\ calls[p].resp.Max = 150000
    /\ calls[p].resp.Avg = 100000

\* C15: the N-day window of a Stats result, N = 7 and 30, counts the records
\* whose created_at is not earlier than N days before the time the call
\* read: a record created exactly N days before is counted, an earlier one
\* is not.
C15_RecentActivityInclusive ==
  \A p \in Procs :
    StatsOf(p) =>
      /\ calls[p].resp.Last7Days =
           Cardinality({r \in store :
                          r.created_at + 7 * SecondsPerDay >= RFC3339(calls[p].tnow)})
      /\ calls[p].resp.Last30Days =
           Cardinality({r \in store :
                          r.created_at + 30 * SecondsPerDay >= RFC3339(calls[p].tnow)})

\* one record exactly 30 days old, one a second older than 7 days: none in
\* the 7-day window, both in the 30-day window
C15_Witness ==
  \E p \in Procs :
    /\ StatsOf(p) /\ RFC3339(calls[p].tnow) = 0
    /\ \E r \in store : r.created_at = 0 - 30 * SecondsPerDay
    /\ \E r \in store : r.created_at = 0 - 7 * SecondsPerDay - 1
    /\ calls[p].resp.Last7Days = 0 /\ calls[p].resp.Last30Days = 2

Min(a, b) == IF a < b THEN a ELSE b
Max(a, b) == IF a > b THEN a ELSE b

RECURSIVE PageLengths(_, _, _, _)
\* the lengths of the pages of q read at offsets o, o + l, o + 2l, ... up to
\* the first empty page, added up
PageLengths(q, l, o, fuel) ==
  LET n == Len(Page(q, l, o))
  IN IF n = 0 \/ fuel = 0 THEN 0 ELSE n + PageLengths(q, l, o + l, fuel - 1)

\* C18: a List with limit L >= 1 and offset O >= 0 that ran on the same
\* table contents as a Count with the same status filter returns
\* min(L, max(0, N - O)) records, N being the count; and on every table the
\* pages read at offsets 0, L, 2L, ... up to the first empty one hold
\* Count records in all.
C18_PageLengthAndCount ==
  /\ \A p, q \in Procs :
       ( /\ Done(p, "List") /\ Done(q, "Count")
         /\ calls[p].status = calls[q].status
         /\ calls[p].snapver = calls[q].snapver
         /\ calls[p].limit >= 1 /\ calls[p].offset >= 0 )
       => Len(calls[p].ret) =
            Min(calls[p].limit, Max(0, calls[q].n - calls[p].offset))
  /\ \A st \in StatusFilters : \A l \in {x \in Limits : x >= 1} :
       \A q \in Orderings({r \in store : ListWhere(r, st)}) :
         PageLengths(q, l, 0, Cardinality(store) + 1) = CountRows(store, st)

C18_Witness ==
  \E p, q \in Procs :
    /\ Done(p, "List") /\ Done(q, "Count")
    /\ calls[p].status = "" /\ calls[q].status = ""
    /\ calls[p].snapver = calls[q].snapver
    /\ calls[p].limit = 1 /\ calls[p].offset = 2
    /\ calls[q].n = 2 /\ calls[p].ret = <<>>

\* C19: two Lists with the same status filter, limit and offset that ran on
\* the same table contents (no write between them) return the same sequence
\* of records, in descending updated_at.
C19_SameCallSameSequence ==
  \A p, q \in Procs :
    ( /\ Done(p, "List") /\ Done(q, "List")
      /\ calls[p].status = calls[q].status
      /\ calls[p].limit = calls[q].limit
      /\ calls[p].offset = calls[q].offset
      /\ calls[p].snapver = calls[q].snapver )
    => /\ calls[p].ret = calls[q].ret
       /\ \A i, j \in 1..Len(calls[p].ret) :
            i < j => calls[p].ret[i].updated_at >= calls[p].ret[j].updated_at

\* GET /applications answered 200 with a page and a total that were both
\* read from the table as it is now
Listed(p) ==
  /\ Done(p, "ListApplications") /\ calls[p].err = "nil"
  /\ calls[p].snapver = version

\* the records of a result
Records(ret) == {ret[i] : i \in 1..Len(ret)}

\* the query set nothing but these parameters
Only(q, params) ==
  \A k \in (DOMAIN BaseQuery) \ params : q[k] = BaseQuery[k]

\* C16: a list query with salary_max_lte = N returns only records with
\* 0 < salary_max <= N, and when it sets no other parameter it returns and
\* counts exactly those; with N = 0 it returns no record and counts 0, also
\* on a table that holds a record whose salary_max is 0.
C16_SalaryMaxUpperBound ==
  \A p \in Procs :
    (Listed(p) /\ Queries[calls[p].qi].salary_max_lte.set) =>
      LET q == Queries[calls[p].qi]
          N == q.salary_max_lte.n
          M == {r \in store : 0 < r.salary_max /\ r.salary_max <= N}
      IN /\ Records(calls[p].ret) \subseteq M
         /\ Only(q, {"salary_max_lte"}) =>
              (Records(calls[p].ret) = M /\ calls[p].n = Cardinality(M))
         /\ N = 0 => (calls[p].ret = <<>> /\ calls[p].n = 0)

C16_Witness ==
  \E p, q \in Procs :
    /\ Listed(p) /\ Listed(q)
    /\ Queries[calls[p].qi] = [BaseQuery EXCEPT !.salary_max_lte = Num(0)]
    /\ \E r \in store : r.salary_max = 0
    /\ calls[p].ret = <<>> /\ calls[p].n = 0
    /\ Queries[calls[q].qi] = [BaseQuery EXCEPT !.salary_max_lte = Num(100000)]
    /\ \E r \in store : r.salary_max > 100000
    /\ Len(calls[q].ret) = 1 /\ calls[q].ret[1].salary_max = 100000
    /\ calls[q].n = 1

\* sub occurs in txt as a run of consecutive characters, letter case apart
Contains(txt, sub) ==
  \E i \in 0..Len(txt) :
    /\ i + Len(sub) <= Len(txt)
    /\ \A k \in 1..Len(sub) : LOWER(txt)[i + k] = LOWER(sub)[k]

\* record r satisfies every filter that query q sets
Matches(q, r) ==
  /\ q.status # "" => r.status = q.status
  /\ q.company # "" => Contains(Chars(r.company), Chars(q.company))
  /\ q.role # "" => Contains(Chars(r.role), Chars(q.role))
  /\ q.location # "" => Contains(Chars(r.location), Chars(q.location))
  /\ q.applied_after.set => r.created_at >= q.applied_after.n
  /\ q.applied_before.set => r.created_at <= q.applied_before.n
  /\ q.salary_min_gte.set => r.salary_min >= q.salary_min_gte.n
  /\ q.salary_max_lte.set =>
       (0 < r.salary_max /\ r.salary_max <= q.salary_max_lte.n)

\* C17: a list query that sets no limit and no offset returns exactly the
\* records that satisfy every filter it sets (status equal, company, role and
\* location containing the filter text whatever the letter case, created_at
\* and salaries within the inclusive bounds), and its total counts them; a
\* query that sets no filter returns every record.
C17_ReturnedIffMatches ==
  \A p \in Procs :
    (Listed(p) /\ ~Queries[calls[p].qi].limit.set
               /\ ~Queries[calls[p].qi].offset.set) =>
      LET M == {r \in store : Matches(Queries[calls[p].qi], r)}
      IN Records(calls[p].ret) = M /\ calls[p].n = Cardinality(M)

\* the query names a sort column outside the allowlist, a limit that is not
\* a number of 1..MaxLimit, or an offset that is not a number >= 0
OutOfBounds(q) ==
  \/ q.sort_by # "" /\ q.sort_by \notin ValidSortColumns
  \/ q.limit.set /\ (~q.limit.num \/ q.limit.n < 1 \/ q.limit.n > MaxLimit)
  \/ q.offset.set /\ (~q.offset.num \/ q.offset.n < 0)

C21_HardDeleteAbsentIsResult ==
  [][\A p \in Procs :
       LET c == calls'[p]
           rows == RowsById(store, c.id)
       IN (c # calls[p]) =>
            /\ (c.op = "Delete" /\ wlock = NoProc) =>
                  /\ c.err = "nil" /\ c.ok = (rows # {})
                  /\ store' = store \ rows
                  /\ RowsById(store', c.id) = {}
                  /\ rows = {} => store' = store
            /\ c.op = "Get" =>
                  /\ store' = store
                  /\ rows = {} => (c.err = "nil" /\ c.ret = <<>>)
                  /\ rows # {} => (c.err = "nil" /\ c.ret \in {<<r>> : r \in rows})
            /\ c.op = "List" => Records(c.ret) = {r \in store : ListWhere(r, c.status)}
            /\ c.op = "Count" =>
                  c.n = Cardinality({r \in store : ListWhere(r, c.status)})
            /\ (c.op = "Stats" /\ c.pc = "counted") =>
                  c.resp.Total = Cardinality(store)]_vars

C21_Witness ==
  \E p, q \in Procs :
    /\ Done(p, "Delete") /\ calls[p].ok /\ calls[p].err = "nil"
    /\ Done(q, "Get") /\ calls[q].id = calls[p].id
    /\ calls[q].snapver = version /\ calls[p].cseq = lastWrite[calls[p].id]
    /\ calls[q].ret = <<>> /\ calls[q].err = "nil"
    /\ store # {}

\* C22: the INSERT of a Create adds one record and nothing else: its id is
\* the generated one and is held by no record already stored, created_at and
\* updated_at are equal, the status is the requested one or wishlist for
\* none, each salary bound is the requested one or 0 for none, the other
\* attributes are those of the request, and the records already stored stay
\* as they were; a Create whose INSERT fails adds nothing.
C22_CreateAddsOneRecord ==
  [][\A p \in Procs :
       LET c == calls'[p]
           req == CreateInputs[c.ri]
       IN (c # calls[p] /\ c.op = "Create" /\ Free(p)) =>
            IF c.pc = "inserted"
            THEN \E r \in store' :
                   /\ store' = store \cup {r} /\ r \notin store
                   /\ \A x \in store : x.id # r.id
                   /\ r.id = c.id
                   /\ r.created_at = r.updated_at
                   /\ r.created_at = RFC3339(now)
                   /\ r.status = (IF req.Status = "" THEN "wishlist" ELSE req.Status)
                   /\ r.salary_min = (IF req.SalaryMin = <<>> THEN 0 ELSE req.SalaryMin[1])
                   /\ r.salary_max = (IF req.SalaryMax = <<>> THEN 0 ELSE req.SalaryMax[1])
                   /\ r.company = req.Company /\ r.role = req.Role
                   /\ r.url = req.URL /\ r.location = req.Location
                   /\ r.notes = req.Notes /\ r.applied_at = req.AppliedAt
            ELSE store' = store]_vars

C22_Witness ==
  \E p, q \in Procs :
    /\ Done(p, "Create") /\ calls[p].err = "nil" /\ calls[p].ri = 1
    /\ calls[p].ret # <<>> /\ calls[p].ret[1].status = "wishlist"
    /\ calls[p].ret[1].salary_min = 0 /\ calls[p].ret[1] \in store
    /\ Done(q, "Create") /\ calls[q].err = "nil" /\ calls[q].ri = 5
    /\ calls[q].ret # <<>> /\ calls[q].ret[1].salary_max = 150000
    /\ Cardinality(store) = 2

\* both salary bounds are given and salary_min is the greater
Inverted(lo, hi) == lo > hi

\* C23: a create request with both salary bounds and salary_min > salary_max,
\* and an update request whose body holds both bounds with salary_min >
\* salary_max, are answered 400 and the table stays as it was; requests with
\* equal bounds are not answered 400, and neither is an update whose body
\* holds one of the two bounds only.
C23_InvertedSalaryRejected ==
  [][\A p \in Procs :
       LET c == calls'[p]
           req == CreateInputs[c.ri]
           body == UpdateInputs[c.fi]
           given == {"salary_min", "salary_max"} \cap DOMAIN body
       IN (c # calls[p] /\ Free(p)) =>
            /\ (c.op = "Create" /\ req.SalaryMin # <<>> /\ req.SalaryMax # <<>>) =>
                  IF Inverted(req.SalaryMin[1], req.SalaryMax[1])
                  THEN c.pc = "done" /\ c.err = "400" /\ store' = store
                  ELSE ValidateStatus(req.Status) => c.err # "400"
            /\ (c.op = "Update" /\ Cardinality(given) = 2) =>
                  IF Inverted(body.salary_min, body.salary_max)
                  THEN c.pc = "done" /\ c.err = "400" /\ store' = store
                  ELSE c.err # "400"
            /\ (c.op = "Update" /\ Cardinality(given) = 1) => c.err # "400"]_vars

C23_Witness ==
  \E p, q \in Procs :
    /\ Done(p, "Create") /\ calls[p].ri = 4 /\ calls[p].err = "400"
    /\ Done(q, "Update") /\ calls[q].fi = 12 /\ calls[q].err = "nil"
    /\ calls[q].ret # <<>> /\ calls[q].ret[1].salary_min = 200000
    /\ \A r \in store : r.company # "Acme" \/ r.role # "Engineer"

\* C29 (as claimed): every stored record with both salary bounds above 0
\* has salary_min <= salary_max, after any create and update requests the
\* handlers accepted.
C29_StoredSalaryOrdered ==
  \A r \in store :
    (r.salary_min > 0 /\ r.salary_max > 0) => r.salary_min <= r.salary_max

\* GET /applications answered 200
Responded(p) == Done(p, "ListApplications") /\ calls[p].err = "nil"

\* C24 (as claimed): in every response of GET /applications the page is
\* part of the total records counted, has_more is offset + len(data) < total,
\* and with offset at or beyond total the page is empty and has_more false.
C24_EveryResponseConsistent ==
  \A p \in Procs :
    Responded(p) =>
      LET opts == ListOptions(Queries[calls[p].qi])
      IN /\ calls[p].hasMore = (opts.Offset + Len(calls[p].ret) < calls[p].n)
         /\ opts.Offset + Len(calls[p].ret) <= calls[p].n \/ calls[p].ret = <<>>
         /\ opts.Offset >= calls[p].n => (calls[p].ret = <<>> /\ ~calls[p].hasMore)

\* C24 (amended): in every response has_more is offset + len(data) < total;
\* when no write was committed between the List and the Count of the
\* request, the page holds min(limit, max(0, total - offset)) records, so
\* has_more is true exactly when records are left beyond the page, and with
\* offset at or beyond total the page is empty and has_more false; when no
\* write was committed since, total is the number of records the table holds
\* that match the filter, whatever limit and offset are.
C24_ResponseConsistentWithoutWrite ==
  \A p \in Procs :
    Responded(p) =>
      LET opts == ListOptions(Queries[calls[p].qi])
          c == calls[p]
      IN /\ c.hasMore = (opts.Offset + Len(c.ret) < c.n)
         /\ c.countver = c.snapver =>
              /\ Len(c.ret) = Min(opts.Limit, Max(0, c.n - opts.Offset))
              /\ opts.Offset >= c.n => (c.ret = <<>> /\ ~c.hasMore)
              /\ c.hasMore = (c.n > opts.Offset + opts.Limit)
         /\ c.countver = version =>
              c.n = Cardinality({r \in store : buildWhere(opts, r)})

C24_Witness ==
  \E p, q \in Procs :
    /\ Responded(p) /\ Responded(q)
    /\ calls[p].countver = version /\ calls[q].countver = version
    /\ calls[p].snapver = version /\ calls[q].snapver = version
    /\ Queries[calls[p].qi] = [BaseQuery EXCEPT !.limit = Num(1), !.offset = Num(1)]
    /\ Len(calls[p].ret) = 1 /\ calls[p].n = 3 /\ calls[p].hasMore
    /\ Queries[calls[q].qi] = [BaseQuery EXCEPT !.salary_max_lte = Num(100000)]
    /\ Len(calls[q].ret) = 1 /\ calls[q].n = 1 /\ ~calls[q].hasMore

\* the goroutines whose Create returned without error
Created == {p \in Procs : Done(p, "Create") /\ calls[p].err = "nil"}

\* C25: once the concurrent Creates have all returned, those that returned
\* without error have pairwise distinct ids, each of them is the id of exactly
\* one stored record, no two stored records share an id, and the table holds
\* as many records more than the ones it held before as Creates succeeded.
C25_ConcurrentCreatesAllStored ==
  (\A p \in Procs : Free(p)) =>
    /\ \A p, q \in Created : p # q => calls[p].id # calls[q].id
    /\ \A p \in Created : Cardinality(RowsById(store, calls[p].id)) = 1
    /\ \A r1, r2 \in store : r1.id = r2.id => r1 = r2
    /\ Cardinality(store)
         = Cardinality({r \in store : \A p \in Created : r.id # calls[p].id})
           + Cardinality(Created)

C25_Witness ==
  /\ Created = Procs
  /\ Cardinality(store) = NumProcs
  /\ \A p \in Procs : calls[p].ret # <<>> /\ calls[p].ret[1] \in store
  /\ \E p, q \in Procs : p # q /\ calls[p].ret[1].created_at = calls[q].ret[1].created_at

\* the steps of one Update call, by position: from -> the positions it may
\* move to
UpdateOrder ==
  [idle |-> {"begun", "done"}, done |-> {"begun", "done"},
   begun |-> {"read", "done"}, read |-> {"written", "done"},
   written |-> {"reread", "done"}, reread |-> {"committing", "done"},
   committing |-> {"done"}]

\* the transaction of p holds an uncommitted write
Wrote(c) == c.tx # {}

\* C26: an Update call moves begin, read, then returns (absent, or nothing
\* to set, or an error) or writes once, re-reads and commits; it holds an
\* uncommitted write only after a read that found the record, the table
\* changes for it only at its commit, a call that found no record or no
\* column to set returns without having written, and a call that has
\* returned holds neither uncommitted rows nor the write lock.
C26_UpdateStepOrder ==
  [][\A p \in Procs :
       LET c == calls[p]
           d == calls'[p]
       IN (d.op = "Update" /\ d # c) =>
            /\ d.pc = c.pc \/ d.pc \in UpdateOrder[c.pc]
            /\ Wrote(d) => (d.pc \in {"written", "reread", "committing"}
                             /\ d.existing # <<>> /\ wlock' = p)
            /\ (Wrote(d) /\ ~Wrote(c)) => (c.pc = "read" /\ d.pc = "written")
            /\ (c.pc = "begun" /\ d.pc = "done" /\ d.err = "nil") =>
                  (store' = store /\ ~Wrote(c)
                   /\ (d.ret = <<>> \/ SetCols(UpdateInputs[d.fi]) = {}))
            /\ store' # store => (c.pc = "committing" /\ d.pc = "done")
            /\ d.pc = "done" => (~Wrote(d) /\ wlock' # p /\ d.snapver = -1)]_vars

C26_Witness ==
  \E p, q \in Procs :
    /\ Done(p, "Update") /\ calls[p].err = "nil" /\ calls[p].cseq # -1
    /\ calls[p].ret # <<>> /\ calls[p].ret[1] \in store
    /\ Done(q, "Update") /\ calls[q].err = "SQLITE_BUSY"
    /\ calls[q].existing # <<>>
    /\ wlock = NoProc

\* C28 (as claimed): a Create that returned without error returned a
\* record, and that record is the row it inserted: the attributes of its
\* request, created_at equal to updated_at; whatever Updates and Deletes of
\* the new id ran at the same time.
C28_CreateReturnsOwnRecord ==
  \A p \in Procs :
    (Done(p, "Create") /\ calls[p].err = "nil") =>
      /\ calls[p].ret # <<>>
      /\ calls[p].ret = calls[p].com
      /\ calls[p].ret[1].created_at = calls[p].ret[1].updated_at

\* C30 (as claimed): every Stats result has last_7_days <= last_30_days <=
\* total, and total equal to the sum of the counts by status.
C30_StatsAlwaysOrdered ==
  \A p \in Procs :
    Done(p, "Stats") =>
      LET resp == calls[p].resp
      IN /\ resp.Last7Days <= resp.Last30Days
         /\ resp.Last30Days <= resp.Total
         /\ resp.Total = SumOver(resp.ByStatus, DOMAIN resp.ByStatus)

\* C30 (amended): every Stats result has total equal to the sum of the
\* counts by status; a Stats result obtained with no write committed
\* between its queries has last_7_days <= last_30_days <= total.
C30_StatsOrderedWithoutWrite ==
  \A p \in Procs :
    Done(p, "Stats") =>
      LET resp == calls[p].resp
      IN /\ resp.Total = SumOver(resp.ByStatus, DOMAIN resp.ByStatus)
         /\ StatsOf(p) =>
              (resp.Last7Days <= resp.Last30Days /\ resp.Last30Days <= resp.Total)

C30_Witness ==
  \E p, q \in Procs :
    /\ StatsOf(p)
    /\ calls[p].resp.Last7Days = 0 /\ calls[p].resp.Last30Days = 1
    /\ calls[p].resp.Total = 1
    /\ Done(q, "Delete") /\ calls[q].ok /\ calls[q].cseq = lastWrite[calls[q].id]
    /\ \E r \in store : r.created_at = 0 - 30 * SecondsPerDay

\* every call that was to be made has been made and has returned
AllReturned == ncalls = MaxCalls /\ \A p \in Procs : Free(p)

\* C27: with a single connection in the pool, every call that has started
\* returns in the end, and so do all the calls of the set: none waits for
\* ever for the connection.
C27_EveryCallReturns ==
  /\ \A p \in Procs : (~Free(p)) ~> Free(p)
  /\ <>[]AllReturned

C27_Witness ==
  \E p, q \in Procs :
    /\ calls[p].op = "Create" /\ calls[p].pc = "inserted"
    /\ calls[q].op = "Update" /\ calls[q].pc = "written"
    /\ HoldsConn(q) /\ ~ConnFree
    /\ calls[q].id = calls[p].id

TypeOK ==
  /\ \A r \in store : r.id \in Ids
  /\ \A i \in Ids : Cardinality(RowsById(store, i)) <= 1
  /\ wlock \in Procs \cup {NoProc}

====
